---- MODULE Spec2Model ----
(***************************************************************************)
(* bluebooth: the dispatcher loop of src/src/main.rs.                      *)
(*                                                                         *)
(* One task (tokio current_thread) races the adapter's discovery stream    *)
(* against a SelectAll of per-device change streams and keeps a            *)
(* HashMap<Address, Device> behind a tokio RwLock.  The adapter, the       *)
(* devices and their streams are the environment; every other action is a  *)
(* step of main.                                                           *)
(***************************************************************************)
EXTENDS Naturals, Sequences, FiniteSets, Bags, TLC

\* Bounds of the model.
MaxDiscovery == 3
MaxEmit == 2

Addrs == {"A", "B"}

\* The allow-lists the arguments can give, up to renaming of the addresses:
\* none, and one that lets B through and not A.
FilterChoices == {{}, {"B"}}

\* The DeviceProperty kinds told apart by change_info's match: Name and
\* Alias call set_alias, every other arm (Connected stands for them) is todo!().
Props == {"Name", "Alias", "Connected"}

NoAddr == "none"
NoProp == "none"

\* A bluer Device is a handle: the adapter and the address it was made for.
Device(a) == [addr |-> a]
NoDevice == Device(NoAddr)

AdapterEvents ==
    [kind : {"DeviceAdded", "DeviceRemoved"}, addr : Addrs]
        \cup {[kind |-> "PropertyChanged", addr |-> NoAddr]}

VARIABLES
    filter_addr,        \* main.rs:179 allow-list parsed from the arguments
    device_events,      \* main.rs:195 the event the discovery stream holds ready, if any
    discOpen,           \* the discovery stream has not ended
    nProduced,          \* how many events the adapter has produced
    all_change_events,  \* main.rs:198 SelectAll: a bag of the registered streams
    nEmitted,           \* how many property changes the devices have signalled
    devices,            \* main.rs:177 the HashMap, a set of (addr, device) entries
    readers,            \* RwLock: read guards held
    writers,            \* RwLock: write guards held
    pc,                 \* position of main
    addr,               \* address of the event being handled
    device,             \* handle returned by get_device
    property,           \* property of the change event being handled
    ret,                \* which call site print_table returns to
    error,              \* which `?` made main return Err
    lastAdded,          \* addresses whose latest dispatched discovery event is DeviceAdded
    fetched,            \* addresses passed to get_device
    nRenders,           \* calls of print_table
    lastRender,         \* what the latest print_table read
    nMutations,         \* completed set_info and remove_info calls
    lastMutation,       \* table content right after the latest of them
    lastChange          \* per address, the number of the latest change event dispatched

env   == <<device_events, discOpen, nProduced, nEmitted>>
lock  == <<readers, writers>>
frame == <<addr, device, property, ret>>
logs  == <<lastAdded, fetched, nRenders, lastRender, nMutations, lastMutation,
           lastChange>>
vars  == <<filter_addr, device_events, discOpen, nProduced, all_change_events,
           nEmitted, devices, readers, writers, pc, addr, device, property, ret,
           error, lastAdded, fetched, nRenders, lastRender, nMutations, lastMutation,
           lastChange>>

----------------------------------------------------------------------------
\* HashMap<Address, Device>

Keys(map) == {e.addr : e \in map}

HashMapInsert(map, k, v) ==
    {e \in map : e.addr # k} \cup {[addr |-> k, device |-> v]}

HashMapRemoveNothing(map, k) == map

HashMapRemove(map, k) == {e \in map : e.addr # k}

HashMapContainsAlways(map, k) == TRUE

HashMapContains(map, k) == k \in Keys(map)

HashMapGet(map, k) ==
    IF k \in Keys(map) THEN (CHOOSE e \in map : e.addr = k).device ELSE NoDevice

----------------------------------------------------------------------------
\* tokio::sync::RwLock

\* read() is granted while no write guard is held, write() while no guard is.
RwLockCanRead == writers = 0

RwLockCanWriteIgnoringReaders == writers = 0

RwLockCanWrite == writers = 0 /\ readers = 0

----------------------------------------------------------------------------
\* The allow-list test of the DeviceAdded arm.

FilteredNever(a) == FALSE

Filtered(a) == filter_addr # {} /\ a \notin filter_addr

----------------------------------------------------------------------------
\* The change streams held by all_change_events.

Stream(a) == [addr |-> a, q |-> <<>>, live |-> TRUE]

Registered == BagToSet(all_change_events)

Ready == {s \in Registered : s.q # <<>>}

FinishedOrIdle == {s \in Registered : s.q = <<>>}

\* The streams whose next poll yields None.
Finished == {s \in Registered : ~s.live /\ s.q = <<>>}

Subscribed(a) == {s \in Registered : s.addr = a /\ s.live}

\* How many streams of the registry are for address a.
StreamsFor(a) ==
    BagCardinality([s \in {t \in Registered : t.addr = a} |-> all_change_events[s]])

\* The bag with one copy of stream s replaced by stream t.
Replace(bag, s, t) == (bag (-) SetToBag({s})) (+) SetToBag({t})

\* A PropertyChanged signal: the property and its number among the signals.
Change(p, n) == [p |-> p, n |-> n]

\* The bag with every copy of the streams in S given p as their next event.
Deliver(bag, S, p) ==
    LET to(s) == IF s \in S THEN [s EXCEPT !.q = Append(@, p)] ELSE s
        from(t) == CHOOSE s \in BagToSet(bag) : to(s) = t
    IN  [t \in {to(s) : s \in BagToSet(bag)} |-> bag[from(t)]]

Returned == pc \in {"done", "err", "panicked"}

----------------------------------------------------------------------------
Init ==
    /\ filter_addr \in FilterChoices
    /\ device_events = <<>>
    /\ discOpen = TRUE
    /\ nProduced = 0
    /\ all_change_events = EmptyBag
    /\ nEmitted = 0
    /\ devices = {}
    /\ readers = 0
    /\ writers = 0
    /\ pc = "select"
    /\ addr = NoAddr
    /\ device = NoDevice
    /\ property = NoProp
    /\ ret = "none"
    /\ error = "none"
    /\ lastAdded = {}
    /\ fetched = {}
    /\ nRenders = 0
    /\ lastRender = {}
    /\ nMutations = 0
    /\ lastMutation = {}
    /\ lastChange = [a \in Addrs |-> 0]

----------------------------------------------------------------------------
\* Environment: the adapter's discovery stream and the devices' signals.
\* main looks at its streams only in select!, so what a source does while a
\* handler runs is taken as done when the handler is back at select!.

AdapterEmits ==
    /\ pc = "select"
    /\ discOpen
    /\ nProduced < MaxDiscovery
    /\ device_events = <<>>
    /\ nProduced' = nProduced + 1
    /\ \E ev \in AdapterEvents : device_events' = Append(device_events, ev)
    /\ UNCHANGED <<filter_addr, discOpen, all_change_events, nEmitted, devices,
                   lock, pc, frame, error, logs>>

AdapterCloses ==
    /\ pc = "select"
    /\ discOpen
    /\ discOpen' = FALSE
    /\ UNCHANGED <<filter_addr, device_events, nProduced, all_change_events, nEmitted,
                   devices, lock, pc, frame, error, logs>>

\* One PropertyChanged signal reaches every stream subscribed to the device.
DeviceEmits ==
    /\ pc = "select"
    /\ nEmitted < MaxEmit
    /\ nEmitted' = nEmitted + 1
    /\ \E a \in Addrs, p \in Props :
         /\ Subscribed(a) # {}
         /\ all_change_events' =
              Deliver(all_change_events, Subscribed(a), Change(p, nEmitted + 1))
    /\ UNCHANGED <<filter_addr, device_events, discOpen, nProduced, devices,
                   lock, pc, frame, error, logs>>

StreamEnds ==
    /\ pc = "select"
    /\ \E s \in Registered :
         /\ s.live
         /\ all_change_events' = Replace(all_change_events, s, [s EXCEPT !.live = FALSE])
    /\ UNCHANGED <<filter_addr, env, devices, lock, pc, frame, error, logs>>

----------------------------------------------------------------------------
\* main: the select! loop.

\* Where the DeviceRemoved arm goes once remove_info has returned.
AfterRemoveSkipRender == "select"

AfterRemove == "print_table"

\* Where main goes when `get_device(&adapter, addr)?` is an Err.
OnLookupFailure == "err"

\* Where main goes when `print_table(devices.clone()).await?` is an Err.
OnRenderFailureContinue == "select"

OnRenderFailure == "err"

\* Some(device_event) = device_events.next()
SelectDiscovery ==
    /\ pc = "select"
    /\ device_events # <<>>
    /\ device_events' = Tail(device_events)
    /\ LET ev == Head(device_events) IN
         /\ lastAdded' = CASE ev.kind = "DeviceAdded" -> lastAdded \cup {ev.addr}
                           [] ev.kind = "DeviceRemoved" -> lastAdded \ {ev.addr}
                           [] OTHER -> lastAdded
         /\ IF ev.kind = "DeviceAdded" /\ ~Filtered(ev.addr)
              THEN pc' = "get_device" /\ addr' = ev.addr
            ELSE IF ev.kind = "DeviceRemoved"
              THEN pc' = "remove_info" /\ addr' = ev.addr
            ELSE pc' = "select" /\ addr' = NoAddr
    /\ UNCHANGED <<filter_addr, discOpen, nProduced, nEmitted, all_change_events,
                   devices, lock, device, property, ret, error,
                   fetched, nRenders, lastRender, nMutations, lastMutation,
                   lastChange>>

\* let device = get_device(&adapter, addr)?;
GetDevice ==
    /\ pc = "get_device"
    /\ fetched' = fetched \cup {addr}
    /\ \E ok \in BOOLEAN :
         IF ok
           THEN /\ device' = Device(addr)
                /\ pc' = "set_info"
                /\ UNCHANGED <<addr, error>>
           ELSE /\ pc' = OnLookupFailure
                /\ error' = "get_device"
                /\ addr' = IF OnLookupFailure = "select" THEN NoAddr ELSE addr
                /\ UNCHANGED device
    /\ UNCHANGED <<filter_addr, env, all_change_events, devices, lock,
                   property, ret, lastAdded, nRenders, lastRender, nMutations,
                   lastMutation, lastChange>>

\* devices.write().await in set_info, remove_info and change_info.
AcquireWrite ==
    /\ pc \in {"set_info", "remove_info", "ci_write"}
    /\ RwLockCanWrite
    /\ writers' = writers + 1
    /\ pc' = CASE pc = "set_info" -> "set_info_w"
               [] pc = "remove_info" -> "remove_info_w"
               [] pc = "ci_write" -> "ci_w"
    /\ UNCHANGED <<filter_addr, env, all_change_events, devices, readers,
                   frame, error, logs>>

\* The code run under the write guard, up to the guard's drop.
WriteSection ==
    /\ pc \in {"set_info_w", "remove_info_w", "ci_w"}
    /\ \E ok \in BOOLEAN :
         CASE pc = "set_info_w" ->
                /\ ok
                /\ devices' = HashMapInsert(devices, addr, device)
                /\ nMutations' = nMutations + 1
                /\ lastMutation' = devices'
                /\ pc' = "print_table"
                /\ ret' = "added"
                /\ device' = NoDevice
                /\ UNCHANGED <<readers, addr, property>>
           [] pc = "remove_info_w" ->
                /\ ok
                /\ devices' = HashMapRemove(devices, addr)
                /\ nMutations' = nMutations + 1
                /\ lastMutation' = devices'
                /\ pc' = AfterRemove
                /\ ret' = IF AfterRemove = "print_table" THEN "removed" ELSE "none"
                /\ addr' = IF AfterRemove = "print_table" THEN addr ELSE NoAddr
                /\ UNCHANGED <<readers, device, property>>
           [] pc = "ci_w" ->
                \* match property { Name | Alias => set_alias(..).await?, _ => todo!() }
                \* then writable_devices.insert(address, device.clone())
                /\ devices' = IF property \in {"Name", "Alias"} /\ ok
                                THEN HashMapInsert(devices, addr, HashMapGet(devices, addr))
                                ELSE devices
                /\ pc' = IF property \in {"Name", "Alias"} THEN "select" ELSE "panicked"
                /\ readers' = readers - 1
                /\ addr' = NoAddr
                /\ property' = NoProp
                /\ UNCHANGED <<device, ret, nMutations, lastMutation>>
    /\ writers' = writers - 1
    /\ UNCHANGED <<filter_addr, env, all_change_events, error, lastAdded, fetched,
                   nRenders, lastRender, lastChange>>

\* let editable_devices = devices.read().await; the rows are read from it.
PrintTableLock ==
    /\ pc = "print_table"
    /\ RwLockCanRead
    /\ readers' = readers + 1
    /\ nRenders' = nRenders + 1
    /\ lastRender' = devices
    /\ pc' = "print_rows"
    /\ UNCHANGED <<filter_addr, env, all_change_events, devices, writers,
                   frame, error, lastAdded, fetched, nMutations, lastMutation,
                   lastChange>>

\* The row loop (to_bluetooth_info(device).await? per entry), printstd, and
\* the drop of the read guard.  With no entry nothing can fail.
PrintTableRows ==
    /\ pc = "print_rows"
    /\ readers' = readers - 1
    /\ \E ok \in BOOLEAN :
         /\ ok \/ devices # {}
         /\ IF ok
              THEN /\ pc' = IF ret = "added" THEN "events" ELSE "select"
                   /\ addr' = IF ret = "added" THEN addr ELSE NoAddr
                   /\ UNCHANGED error
              ELSE /\ pc' = OnRenderFailure
                   /\ error' = "print_table"
                   /\ UNCHANGED addr
    /\ ret' = "none"
    /\ UNCHANGED <<filter_addr, env, all_change_events, devices, writers,
                   device, property, logs>>

\* let device = adapter.device(addr)?; device.events().await?; push.
RegisterEvents ==
    /\ pc = "events"
    /\ \E ok \in BOOLEAN :
         IF ok
           THEN /\ all_change_events' = all_change_events (+) SetToBag({Stream(addr)})
                /\ pc' = "select"
                /\ addr' = NoAddr
                /\ UNCHANGED error
           ELSE /\ pc' = "err"
                /\ error' = "events"
                /\ UNCHANGED <<all_change_events, addr>>
    /\ UNCHANGED <<filter_addr, env, devices, lock, device, property, ret, logs>>

\* Some((addr, DeviceEvent::PropertyChanged(property))) = all_change_events.next()
SelectChange ==
    /\ pc = "select"
    /\ \E s \in Ready :
         /\ addr' = s.addr
         /\ property' = Head(s.q).p
         /\ lastChange' = [lastChange EXCEPT ![s.addr] = Head(s.q).n]
         /\ all_change_events' = Replace(all_change_events, s, [s EXCEPT !.q = Tail(@)])
    /\ pc' = "change_info"
    /\ UNCHANGED <<filter_addr, env, devices, lock, device, ret, error,
                   lastAdded, fetched, nRenders, lastRender, nMutations, lastMutation>>

\* SelectAll drops a stream once it has yielded None.
ReapStream ==
    /\ pc = "select"
    /\ \E s \in Finished : all_change_events' = all_change_events (-) SetToBag({s})
    /\ UNCHANGED <<filter_addr, env, devices, lock, pc, frame, error, logs>>

\* else => break; Ok(())
Break ==
    /\ pc = "select"
    /\ ~discOpen
    /\ device_events = <<>>
    /\ Registered = {}
    /\ pc' = "done"
    /\ UNCHANGED <<filter_addr, env, all_change_events, devices, lock,
                   frame, error, logs>>

\* change_info: let readable_devices = devices.read().await;
ChangeInfoRead ==
    /\ pc = "change_info"
    /\ RwLockCanRead
    /\ readers' = readers + 1
    /\ pc' = "ci_lookup"
    /\ UNCHANGED <<filter_addr, env, all_change_events, devices, writers,
                   frame, error, logs>>

\* match readable_devices.get(&address): None returns Ok(()) and drops the
\* read guard; Some keeps the guard (device borrows from it) and goes on to
\* devices.write().await.
ChangeInfoLookup ==
    /\ pc = "ci_lookup"
    /\ IF HashMapContains(devices, addr)
         THEN /\ pc' = "ci_write"
              /\ UNCHANGED <<readers, addr, property>>
         ELSE /\ pc' = "select"
              /\ readers' = readers - 1
              /\ addr' = NoAddr
              /\ property' = NoProp
    /\ UNCHANGED <<filter_addr, env, all_change_events, devices, writers,
                   device, ret, error, logs>>

----------------------------------------------------------------------------
Environment == AdapterEmits \/ AdapterCloses \/ DeviceEmits \/ StreamEnds

Dispatcher ==
    \/ SelectDiscovery
    \/ GetDevice
    \/ AcquireWrite
    \/ WriteSection
    \/ PrintTableLock
    \/ PrintTableRows
    \/ RegisterEvents
    \/ SelectChange
    \/ ReapStream
    \/ Break
    \/ ChangeInfoRead
    \/ ChangeInfoLookup

Next == Environment \/ Dispatcher

Spec == Init /\ [][Next]_vars

\* The runtime keeps polling main: a step of main that stays possible is taken.
FairSpec == Spec /\ WF_vars(Dispatcher)

\* select! polls its branches in random order: a branch that is ready again
\* and again is taken.
FairSelectSpec ==
    Spec /\ WF_vars(Dispatcher) /\ SF_vars(SelectDiscovery) /\ SF_vars(SelectChange)

----------------------------------------------------------------------------
\* Properties.

\* main is between two events: back at select!, or out of the loop with Ok.
Idle == pc \in {"select", "done"}

Allowed(a) == filter_addr = {} \/ a \in filter_addr

\* The discovery stream and every registered change stream have ended and
\* hold nothing more.
SourcesExhausted ==
    /\ ~discOpen
    /\ device_events = <<>>
    /\ \A s \in Registered : ~s.live /\ s.q = <<>>

\* C1: once the dispatcher has processed the discovery events it received
\* (every lookup having succeeded), the table holds exactly the addresses
\* whose latest discovery event is DeviceAdded and that the allow-list lets
\* through, with one record per address.
C1_TableTracksDiscovery ==
    Idle => /\ Keys(devices) = {a \in lastAdded : Allowed(a)}
            /\ Cardinality(devices) = Cardinality(Keys(devices))

\* An added device was removed again or added twice, and a record is left.
C1_Witness ==
    /\ pc = "select"
    /\ device_events = <<>>
    /\ nMutations >= 2
    /\ devices # {}
    /\ lastAdded # Addrs

\* C2: a PropertyChanged event dispatched for an address that is in the
\* table is applied: change_info completes and the dispatcher is back at
\* select! for its next iteration.
C2_PresentChangeCompletes ==
    (pc = "ci_lookup" /\ HashMapContains(devices, addr)) ~> (pc = "select")

\* C3: change_info for an address that is not in the table returns without
\* touching the table, whatever the property, and drops its read guard.
C3_AbsentChangeIsNoOp ==
    [][(pc \in {"change_info", "ci_lookup"} /\ addr \notin Keys(devices))
          => /\ devices' = devices
             /\ pc' \in {"ci_lookup", "select"}
             /\ (pc = "ci_lookup" => pc' = "select" /\ readers' = 0)]_vars

\* change_info holds its read guard and has found no record for the address,
\* whose stream outlived the record.
C3_Witness ==
    /\ pc = "ci_lookup"
    /\ readers = 1
    /\ addr \notin Keys(devices)
    /\ addr \in fetched

\* The next step takes DeviceAdded for an address the allow-list keeps out.
TakesFilteredAdded ==
    /\ pc = "select"
    /\ device_events # <<>>
    /\ device_events' = Tail(device_events)
    /\ Head(device_events).kind = "DeviceAdded"
    /\ ~Allowed(Head(device_events).addr)

\* C4: with a non-empty allow-list, DeviceAdded for an address outside it has
\* no effect: no lookup, no table change, no stream registration, no render,
\* no lock taken; the loop is at select! again.  So only allowed addresses
\* are ever looked up, stored or registered.
C4_FilteredAddedIgnored ==
    /\ [](/\ fetched \subseteq {a \in Addrs : Allowed(a)}
          /\ Keys(devices) \subseteq {a \in Addrs : Allowed(a)}
          /\ \A s \in Registered : Allowed(s.addr))
    /\ [][TakesFilteredAdded =>
            /\ pc' = "select"
            /\ UNCHANGED <<devices, all_change_events, fetched, nRenders,
                           nMutations, readers, writers>>]_vars

\* Allow-list {B}, DeviceAdded(A) and DeviceAdded(B) handled: B alone was
\* looked up, stored, rendered and registered.
C4_Witness ==
    /\ pc = "select"
    /\ filter_addr = {"B"}
    /\ lastAdded = {"A", "B"}
    /\ fetched = {"B"}
    /\ Keys(devices) = {"B"}
    /\ nRenders = 1
    /\ StreamsFor("B") = 1
    /\ StreamsFor("A") = 0

\* C5: a failed device lookup in the DeviceAdded arm does not end the loop
\* with an error.
C5_LookupFailureNotFatal == error = "get_device" => pc # "err"

\* C6: the registry never holds two streams for one address.
C6_OneStreamPerAddress == \A a \in Addrs : StreamsFor(a) <= 1

\* C7: with a non-empty allow-list, DeviceRemoved for an address outside it
\* is ignored: neither remove_info nor the render after it runs for it.
C7_FilteredRemovedIgnored ==
    (pc \in {"remove_info", "remove_info_w"} \/ ret = "removed") => Allowed(addr)

\* C8: every completed set_info and remove_info is followed by exactly one
\* print_table call, made before anything else touches the table, and that
\* call reads the table as the mutation left it.
C8_RenderFollowsMutation ==
    /\ nMutations = nRenders + (IF pc = "print_table" THEN 1 ELSE 0)
    /\ (pc # "print_table" /\ nRenders > 0) => lastRender = lastMutation
    /\ pc = "print_table" => devices = lastMutation

\* DeviceAdded(A) then DeviceRemoved(A): the second of the two renders read
\* an empty table.
C8_Witness ==
    /\ pc = "select"
    /\ fetched # {}
    /\ nMutations = 2
    /\ nRenders = 2
    /\ lastRender = {}
    /\ devices = {}

\* C9: once the discovery stream and the change streams are exhausted the
\* loop ends: main has returned, or it can still take a step towards that.
C9_ExhaustedSourcesEndLoop ==
    SourcesExhausted => (Returned \/ ENABLED Dispatcher)

\* C10: a write guard excludes every other guard, and print_table's rows are
\* the table as it stands while its read guard is held.
C10_GuardsExclusive ==
    /\ writers <= 1
    /\ writers = 1 => readers = 0
    /\ pc \in {"set_info_w", "remove_info_w", "ci_w"} <=> writers = 1
    /\ pc = "print_rows" => (readers = 1 /\ lastRender = devices)

\* change_info asks for the write guard while it holds its read guard.
C10_Witness ==
    /\ pc = "ci_write"
    /\ readers = 1
    /\ writers = 0

\* C11: the change events of one address are handed to change_info in the
\* order its device signalled them.
C11_ChangesInOrderPerAddress ==
    [][(pc = "select" /\ pc' = "change_info")
          => lastChange'[addr'] >= lastChange[addr']]_vars

\* C12: a PropertyChanged event for an address in the table is followed by a
\* print_table call.
C12_RenderAfterChange ==
    (pc = "change_info" /\ HashMapContains(devices, addr)) ~> (pc = "print_table")

\* C13: when print_table fails, main returns that error with no guard left
\* held, and nothing is dispatched after it.
C13_RenderFailureAborts ==
    /\ error = "print_table" => (pc = "err" /\ readers = 0 /\ writers = 0)
    /\ pc = "err" => ~ENABLED Next

\* print_table has failed while a change event was waiting and the discovery
\* stream was still open.
C13_Witness ==
    /\ pc = "err"
    /\ error = "print_table"
    /\ Ready # {}
    /\ discOpen

\* C14: an event the discovery stream holds ready is eventually taken.
C14_DiscoveryNotStarved == (device_events # <<>>) ~> (device_events = <<>>)

\* C15: every lock request of set_info, remove_info, change_info and
\* print_table is made when the lock can grant it.
C15_LockRequestsGranted ==
    /\ pc \in {"set_info", "remove_info", "ci_write"} => RwLockCanWrite
    /\ pc \in {"print_table", "change_info"} => RwLockCanRead

\* C16: when the render of an accepted DeviceAdded happens, the address has
\* a change stream registered.
C16_RegisteredBeforeRender ==
    (pc \in {"print_table", "print_rows"} /\ ret = "added") => StreamsFor(addr) >= 1

\* The next step takes DeviceRemoved.
TakesRemoved ==
    /\ pc = "select"
    /\ device_events # <<>>
    /\ device_events' = Tail(device_events)
    /\ Head(device_events).kind = "DeviceRemoved"

====
